---- MODULE Spec2Model ----
(***************************************************************************)
(* Model of the analytics MCP tools (analytics_mcp/tools).                 *)
(*                                                                         *)
(* A Python string is a sequence of symbols.  The literal prefix           *)
(* "properties/" is one symbol of the alphabet; "/" is a slash, " " a      *)
(* blank, "0".."9" the decimal digits, "-" the minus sign of a formatted   *)
(* negative integer and "x" any other character.                           *)
(* A Python value of a union type is a record with one field naming the    *)
(* type: [int |-> 7], [str |-> <<"1">>], [none |-> TRUE].                  *)
(***************************************************************************)
EXTENDS Integers, Sequences, FiniteSets, TLC

\* ---- bounds of the model ------------------------------------------------
MaxLen == 3
MaxIntArg == 11
MaxPages == 3
MaxPageSize == 3
MaxEntries == 2
MaxDepth == 1
MaxOperands == 1
MaxPopulated == 2
MaxOrderBys == 1
MaxInvocations == 2
MaxFetches == 2

\* ---- program constants ---------------------------------------------------
\* The largest limit the docstring of run_realtime_report allows.
MaxLimit == 250000

\* ---- Python values ------------------------------------------------------
None == [none |-> TRUE]
PyInt(n) == [int |-> n]
PyStr(s) == [str |-> s]
IsNone(v) == "none" \in DOMAIN v
IsInt(v) == "int" \in DOMAIN v
IsStr(v) == "str" \in DOMAIN v

DigitChars == {"0", "1", "2", "3", "4", "5", "6", "7", "8", "9"}
InputChars == {"properties/", "/", " ", "0", "1", "x"}
SlashChars == {"properties/", "/"}

DigitVal(c) ==
  CASE c = "0" -> 0 [] c = "1" -> 1 [] c = "2" -> 2 [] c = "3" -> 3
    [] c = "4" -> 4 [] c = "5" -> 5 [] c = "6" -> 6 [] c = "7" -> 7
    [] c = "8" -> 8 [] c = "9" -> 9

DigitChar(d) ==
  CASE d = 0 -> "0" [] d = 1 -> "1" [] d = 2 -> "2" [] d = 3 -> "3"
    [] d = 4 -> "4" [] d = 5 -> "5" [] d = 6 -> "6" [] d = 7 -> "7"
    [] d = 8 -> "8" [] d = 9 -> "9"

\* str.strip(): drops the leading and the trailing blanks.
RECURSIVE LStrip(_)
LStrip(s) == IF s # <<>> /\ Head(s) = " " THEN LStrip(Tail(s)) ELSE s

RECURSIVE RStrip(_)
RStrip(s) ==
  IF s # <<>> /\ s[Len(s)] = " " THEN RStrip(SubSeq(s, 1, Len(s) - 1)) ELSE s

Strip(s) == RStrip(LStrip(s))

\* str.isdigit(): non-empty and every character a decimal digit.
IsDigit(s) == s # <<>> /\ \A i \in 1..Len(s) : s[i] \in DigitChars

\* int(s) for a string of decimal digits.
RECURSIVE ParseInt(_)
ParseInt(s) ==
  IF s = <<>> THEN 0
  ELSE 10 * ParseInt(SubSeq(s, 1, Len(s) - 1)) + DigitVal(s[Len(s)])

\* f"{n}": the decimal digits of n, after a minus sign when n < 0.
RECURSIVE FormatNat(_)
FormatNat(n) ==
  IF n < 10 THEN <<DigitChar(n)>>
  ELSE Append(FormatNat(n \div 10), DigitChar(n % 10))

FormatInt(n) == IF n < 0 THEN <<"-">> \o FormatNat(0 - n) ELSE FormatNat(n)

\* s.startswith("properties/")
StartsWithProperties(s) == s # <<>> /\ Head(s) = "properties/"

\* s.split("/")[-1]: what follows the last slash of s.
RECURSIVE LastSegment(_)
LastSegment(s) ==
  IF s = <<>> THEN <<>>
  ELSE IF s[Len(s)] \in SlashChars THEN <<>>
  ELSE Append(LastSegment(SubSeq(s, 1, Len(s) - 1)), s[Len(s)])

\* construct_property_rn: property_num, or None when no branch sets it.
property_num(property_value) ==
  IF IsInt(property_value) THEN PyInt(property_value.int)
  ELSE IF IsStr(property_value) THEN
    LET stripped == Strip(property_value.str) IN
      IF IsDigit(stripped) THEN PyInt(ParseInt(stripped))
      ELSE IF StartsWithProperties(stripped) THEN
        LET numeric_part == LastSegment(stripped) IN
          IF IsDigit(numeric_part) THEN PyInt(ParseInt(numeric_part))
          ELSE None
      ELSE None
  ELSE None

\* construct_property_rn: the resource name, or the ValueError of line 99.
construct_property_rn(property_value) ==
  LET num == property_num(property_value) IN
    IF IsNone(num) THEN [error |-> "InvalidPropertyId", value |-> <<>>]
    ELSE [error |-> "none",
          value |-> <<"properties/">> \o FormatInt(num.int)]

\* ---- proto messages and their conversion --------------------------------
\* A message of the remote services: a name and one enum-valued field, held
\* as the enum's number.
Message(n) == [name |-> n, enum_field |-> n % 2]

EnumName(k) == IF k = 0 THEN "TYPE_UNSPECIFIED" ELSE "TYPE_ORDINARY"

\* ---- the tools' state ---------------------------------------------------
VARIABLES pc, tool, args, net, pages, all_pages, outcome, raised

vars == <<pc, tool, args, net, pages, all_pages, outcome, raised>>

ListingTools ==
  {"get_account_summaries", "list_google_ads_links",
   "list_property_annotations"}
PropertyTools ==
  {"list_google_ads_links", "get_property_details",
   "list_property_annotations", "get_custom_dimensions_and_metrics",
   "run_realtime_report"}
RemoteErrors == {"UNAVAILABLE", "PERMISSION_DENIED"}

NoOutcome == [status |-> "none", error |-> "none", value |-> <<>>]
Returned(v) == [status |-> "ok", error |-> "none", value |-> v]
Raised(e) == [status |-> "error", error |-> e, value |-> <<>>]

CredentialsEvent(c) == [kind |-> "credentials", client |-> c]
RpcEvent(m, r) == [kind |-> "rpc", method |-> m, request |-> r]

Init ==
  /\ pc = "idle"
  /\ tool = "none"
  /\ args = None
  /\ net = <<>>
  /\ pages = <<>>
  /\ all_pages = <<>>
  /\ outcome = NoOutcome
  /\ raised = "none"

\* The handler raises e after the network events n.
Raise(t, a, e, n) ==
  /\ pc' = "failed"
  /\ tool' = t
  /\ args' = a
  /\ net' = n
  /\ outcome' = Raised(e)
  /\ UNCHANGED <<pages, all_pages, raised>>

\* The handler suspends on its remote call after the network events n.
Await(t, a, n) ==
  /\ pc' = "awaiting"
  /\ tool' = t
  /\ args' = a
  /\ net' = n
  /\ UNCHANGED <<pages, all_pages, outcome, raised>>

\* _create_credentials inside create_*_api_client: google.auth.default
\* either returns credentials or raises.
create_client(t, a, before, c, credentials_ok, method, request) ==
  IF credentials_ok
  THEN Await(t, a, before \o <<CredentialsEvent(c), RpcEvent(method, request)>>)
  ELSE Raise(t, a, "DefaultCredentialsError", before \o <<CredentialsEvent(c)>>)

get_account_summaries(credentials_ok) ==
  /\ pc = "idle"
  /\ create_client("get_account_summaries", None, <<>>, "admin",
                   credentials_ok, "list_account_summaries",
                   [page_token |-> 0])

list_google_ads_links(property_id, credentials_ok) ==
  /\ pc = "idle"
  /\ LET a == [property_id |-> property_id]
         rn == construct_property_rn(property_id)
     IN IF rn.error # "none"
        THEN Raise("list_google_ads_links", a, rn.error, <<>>)
        ELSE create_client("list_google_ads_links", a, <<>>, "admin",
                           credentials_ok, "list_google_ads_links",
                           [parent |-> rn.value, page_token |-> 0])

get_property_details(property_id, credentials_ok) ==
  /\ pc = "idle"
  /\ LET a == [property_id |-> property_id]
         rn == construct_property_rn(property_id)
     IN IF ~credentials_ok
        THEN Raise("get_property_details", a, "DefaultCredentialsError",
                   <<CredentialsEvent("admin")>>)
        ELSE IF rn.error # "none"
        THEN Raise("get_property_details", a, rn.error,
                   <<CredentialsEvent("admin")>>)
        ELSE Await("get_property_details", a,
                   <<CredentialsEvent("admin"),
                     RpcEvent("get_property", [name |-> rn.value])>>)

list_property_annotations(property_id, credentials_ok) ==
  /\ pc = "idle"
  /\ LET a == [property_id |-> property_id]
         rn == construct_property_rn(property_id)
     IN IF rn.error # "none"
        THEN Raise("list_property_annotations", a, rn.error, <<>>)
        ELSE create_client("list_property_annotations", a, <<>>,
                           "admin_alpha", credentials_ok,
                           "list_reporting_data_annotations",
                           [parent |-> rn.value, page_token |-> 0])

get_custom_dimensions_and_metrics(property_id, credentials_ok) ==
  /\ pc = "idle"
  /\ LET a == [property_id |-> property_id]
         rn == construct_property_rn(property_id)
     IN IF ~credentials_ok
        THEN Raise("get_custom_dimensions_and_metrics", a,
                   "DefaultCredentialsError", <<CredentialsEvent("data")>>)
        ELSE IF rn.error # "none"
        THEN Raise("get_custom_dimensions_and_metrics", a, rn.error,
                   <<CredentialsEvent("data")>>)
        ELSE Await("get_custom_dimensions_and_metrics", a,
                   <<CredentialsEvent("data"),
                     RpcEvent("get_metadata",
                              [name |-> rn.value \o <<"/metadata">>])>>)

\* ---- run_realtime_report: arguments and request assembly ----------------
PyList(s) == [list |-> s]
EmptyDict == [empty_dict |-> TRUE]
Unset == [unset |-> TRUE]

\* Python truth value of an argument.
Truthy(v) ==
  CASE IsNone(v) -> FALSE
    [] IsInt(v) -> v.int # 0
    [] "list" \in DOMAIN v -> v.list # <<>>
    [] "empty_dict" \in DOMAIN v -> FALSE
    [] OTHER -> TRUE

PredicateKeys == {"string_filter", "in_list_filter", "numeric_filter"}

\* The enums of data_v1beta, by number: the name of number k is element
\* k + 1.  In a mapping an enum value is its number, [int |-> 2], or its
\* name as one symbol, [str |-> <<"BEGINS_WITH">>].
MatchType ==
  <<"MATCH_TYPE_UNSPECIFIED", "EXACT", "BEGINS_WITH", "ENDS_WITH", "CONTAINS",
    "FULL_REGEXP", "PARTIAL_REGEXP">>
Operation ==
  <<"OPERATION_UNSPECIFIED", "EQUAL", "LESS_THAN", "LESS_THAN_OR_EQUAL",
    "GREATER_THAN", "GREATER_THAN_OR_EQUAL">>
OrderType ==
  <<"ORDER_TYPE_UNSPECIFIED", "ALPHANUMERIC", "CASE_INSENSITIVE_ALPHANUMERIC",
    "NUMERIC">>

\* The numbers an enum field can take from the mapping's value v: none when
\* v names no member of the enum (the constructor raises).
EnumNumbers(enum, v) ==
  IF IsInt(v) THEN {v.int}
  ELSE {n \in 0..(Len(enum) - 1) : <<enum[n + 1]>> = v.str}

\* int(s) for an optional minus sign and decimal digits.
ParseSigned(s) ==
  IF s # <<>> /\ Head(s) = "-" THEN 0 - ParseInt(Tail(s)) ELSE ParseInt(s)

\* An int64 field takes an int, or a string that holds one.
Int64Of(v) == IF IsInt(v) THEN v.int ELSE ParseSigned(v.str)

\* The value of key f in the mapping d, or the field's default.
Field(d, f, default) == IF f \in DOMAIN d THEN d[f] ELSE default

\* The mapping d has no key outside fields ({} is a mapping without keys).
Known(d, fields) == (DOMAIN d \ {"empty_dict"}) \subseteq fields

EmptyMessage == [empty_message |-> TRUE]

AllPredicateKeys ==
  PredicateKeys \cup {"between_filter", "empty_filter"}

\* The caller's mapping for one predicate sub-field.
PredicateDict(k) ==
  CASE k = "string_filter" ->
         [match_type |-> PyStr(<<"BEGINS_WITH">>), value |-> "add"]
    [] k = "in_list_filter" -> [values |-> <<"purchase">>]
    [] k = "numeric_filter" ->
         [operation |-> PyStr(<<"GREATER_THAN">>),
          value |-> [int64_value |-> PyInt(10)]]

\* The caller's mapping for a Filter with the sub-fields P populated.
FilterDict(P) ==
  [k \in P \cup {"field_name"} |->
     IF k = "field_name" THEN "eventName" ELSE PredicateDict(k)]

\* data_v1beta.NumericValue(mapping): the one_value oneof.
NumericValueMessage(d) ==
  IF ~Known(d, {"int64_value", "double_value"}) THEN {}
  ELSE IF DOMAIN d \cap {"int64_value", "double_value"} = {}
  THEN {EmptyMessage}
  ELSE {[int64_value |-> Int64Of(d.int64_value)] :
          x \in {"int64_value"} \cap DOMAIN d}
       \cup {[double_value |-> d.double_value] :
          x \in {"double_value"} \cap DOMAIN d}

StringFilter(d) ==
  IF ~Known(d, {"match_type", "value", "case_sensitive"}) THEN {}
  ELSE {[match_type |-> n,
         value |-> Field(d, "value", ""),
         case_sensitive |-> Field(d, "case_sensitive", FALSE)] :
          n \in IF "match_type" \in DOMAIN d
                THEN EnumNumbers(MatchType, d.match_type) ELSE {0}}

InListFilter(d) ==
  IF ~Known(d, {"values", "case_sensitive"}) THEN {}
  ELSE {[values |-> Field(d, "values", <<>>),
         case_sensitive |-> Field(d, "case_sensitive", FALSE)]}

NumericFilter(d) ==
  IF ~Known(d, {"operation", "value"}) THEN {}
  ELSE {[operation |-> n, value |-> v] :
          n \in IF "operation" \in DOMAIN d
                THEN EnumNumbers(Operation, d.operation) ELSE {0},
          v \in IF "value" \in DOMAIN d
                THEN NumericValueMessage(d.value) ELSE {Unset}}

BetweenFilter(d) ==
  IF ~Known(d, {"from_value", "to_value"}) THEN {}
  ELSE {[from_value |-> v, to_value |-> w] :
          v \in IF "from_value" \in DOMAIN d
                THEN NumericValueMessage(d.from_value) ELSE {Unset},
          w \in IF "to_value" \in DOMAIN d
                THEN NumericValueMessage(d.to_value) ELSE {Unset}}

EmptyFilter(d) == IF Known(d, {}) THEN {EmptyMessage} ELSE {}

\* The message of predicate sub-field k built from its mapping d.
Predicate(k, d) ==
  CASE k = "string_filter" -> StringFilter(d)
    [] k = "in_list_filter" -> InListFilter(d)
    [] k = "numeric_filter" -> NumericFilter(d)
    [] k = "between_filter" -> BetweenFilter(d)
    [] k = "empty_filter" -> EmptyFilter(d)

\* data_v1beta.Filter(mapping): field_name and the one_filter oneof.  The
\* members of a oneof are set one after the other in the mapping's key
\* order and each clears the one before it, so one of the populated
\* sub-fields remains; the key order is not part of the model.  A key that
\* is no field of the message makes the constructor raise: no message.
Filter(f) ==
  LET populated == DOMAIN f \ {"field_name", "empty_dict"} IN
    IF populated = {}
    THEN {[field_name |-> Field(f, "field_name", ""), one_filter |-> "unset"]}
    ELSE IF ~(populated \subseteq AllPredicateKeys) THEN {}
    ELSE IF \E k \in populated : Predicate(k, f[k]) = {} THEN {}
    ELSE UNION {{[field_name |-> Field(f, "field_name", ""),
                  one_filter |-> k,
                  predicate |-> p] : p \in Predicate(k, f[k])} :
                k \in populated}

RECURSIVE FilterExpression(_), FilterExpressionList(_)

\* data_v1beta.FilterExpression(mapping): the messages the constructor can
\* build from the mapping; it performs no validation of its own beyond
\* the field names.
FilterExpression(m) ==
  IF "filter" \in DOMAIN m
    THEN {[filter |-> t] : t \in Filter(m.filter)}
  ELSE IF "not_expression" \in DOMAIN m
    THEN {[not_expression |-> t] : t \in FilterExpression(m.not_expression)}
  ELSE IF "and_group" \in DOMAIN m
    THEN IF ~Known(m.and_group, {"expressions"}) THEN {}
         ELSE {[and_group |-> [expressions |-> ts]] :
                 ts \in FilterExpressionList(
                          Field(m.and_group, "expressions", <<>>))}
  ELSE IF "or_group" \in DOMAIN m
    THEN IF ~Known(m.or_group, {"expressions"}) THEN {}
         ELSE {[or_group |-> [expressions |-> ts]] :
                 ts \in FilterExpressionList(
                          Field(m.or_group, "expressions", <<>>))}
  ELSE IF Known(m, {}) THEN {EmptyMessage}
  ELSE {}

FilterExpressionList(ms) ==
  IF ms = <<>> THEN {<<>>}
  ELSE {<<h>> \o t : h \in FilterExpression(Head(ms)),
                     t \in FilterExpressionList(Tail(ms))}

\* data_v1beta.OrderBy(mapping): unset fields take the proto defaults.
OrderBy(m) ==
  IF "metric" \in DOMAIN m
  THEN [metric |-> [metric_name |-> m.metric.metric_name],
        desc |-> Field(m, "desc", FALSE)]
  ELSE [dimension |->
          [dimension_name |-> m.dimension.dimension_name,
           order_type |->
             IF "order_type" \in DOMAIN m.dimension
             THEN CHOOSE n \in EnumNumbers(OrderType, m.dimension.order_type) :
                    TRUE
             ELSE 0],
        desc |-> Field(m, "desc", FALSE)]

\* ---- conversion of messages to JSON values ------------------------------
\* The JSON name of a field: its declared name when the caller asks to
\* preserve it, the lowerCamelCase name otherwise.
CamelCase(f) ==
  CASE f = "field_name" -> "fieldName"
    [] f = "string_filter" -> "stringFilter"
    [] f = "in_list_filter" -> "inListFilter"
    [] f = "numeric_filter" -> "numericFilter"
    [] f = "between_filter" -> "betweenFilter"
    [] f = "empty_filter" -> "emptyFilter"
    [] f = "match_type" -> "matchType"
    [] f = "case_sensitive" -> "caseSensitive"
    [] f = "int64_value" -> "int64Value"
    [] f = "double_value" -> "doubleValue"
    [] f = "from_value" -> "fromValue"
    [] f = "to_value" -> "toValue"
    [] f = "not_expression" -> "notExpression"
    [] f = "and_group" -> "andGroup"
    [] f = "or_group" -> "orGroup"
    [] f = "dimension_name" -> "dimensionName"
    [] f = "metric_name" -> "metricName"
    [] f = "order_type" -> "orderType"
    [] f = "enum_field" -> "enumField"
    [] f = "api_name" -> "apiName"
    [] f = "custom_definition" -> "customDefinition"
    [] OTHER -> f

Key(f, preserving_proto_field_name) ==
  IF preserving_proto_field_name THEN f ELSE CamelCase(f)

\* An enum field in the output: its number or its name.
EnumValue(enum, n, use_integers_for_enums) ==
  IF use_integers_for_enums THEN PyInt(n) ELSE PyStr(<<enum[n + 1]>>)

\* A sub-message field with presence: absent from the output when unset.
Present(k, v) == IF v = Unset THEN <<>> ELSE k :> v

\* A JSON object without keys is {}.
Object(fields) == IF DOMAIN fields = {} THEN EmptyDict ELSE fields

\* NumericValue: an int64 is written as a decimal string, a double as a
\* number.
NumericValueToDict(v, pres) ==
  IF v = Unset THEN Unset
  ELSE IF v = EmptyMessage THEN EmptyDict
  ELSE IF "int64_value" \in DOMAIN v
  THEN Key("int64_value", pres) :> PyStr(FormatInt(v.int64_value))
  ELSE Key("double_value", pres) :> v.double_value

\* The predicate message p of sub-field k.  Fields without presence are
\* written with their default values.
PredicateToDict(k, p, ints, pres) ==
  CASE k = "string_filter" ->
         (Key("match_type", pres) :> EnumValue(MatchType, p.match_type, ints))
         @@ (Key("value", pres) :> p.value)
         @@ (Key("case_sensitive", pres) :> p.case_sensitive)
    [] k = "in_list_filter" ->
         (Key("values", pres) :> p.values)
         @@ (Key("case_sensitive", pres) :> p.case_sensitive)
    [] k = "numeric_filter" ->
         (Key("operation", pres) :> EnumValue(Operation, p.operation, ints))
         @@ Present(Key("value", pres), NumericValueToDict(p.value, pres))
    [] k = "between_filter" ->
         Object(Present(Key("from_value", pres),
                        NumericValueToDict(p.from_value, pres))
                @@ Present(Key("to_value", pres),
                           NumericValueToDict(p.to_value, pres)))
    [] k = "empty_filter" -> EmptyDict

FilterToDict(t, ints, pres) ==
  IF t.one_filter = "unset"
  THEN Key("field_name", pres) :> t.field_name
  ELSE (Key("field_name", pres) :> t.field_name)
       @@ (Key(t.one_filter, pres) :>
             PredicateToDict(t.one_filter, t.predicate, ints, pres))

RECURSIVE FilterExpressionToDict(_, _, _)

FilterExpressionToDict(t, ints, pres) ==
  IF "filter" \in DOMAIN t
    THEN Key("filter", pres) :> FilterToDict(t.filter, ints, pres)
  ELSE IF "not_expression" \in DOMAIN t
    THEN Key("not_expression", pres) :>
           FilterExpressionToDict(t.not_expression, ints, pres)
  ELSE IF "and_group" \in DOMAIN t
    THEN Key("and_group", pres) :>
           [expressions |->
              [i \in 1..Len(t.and_group.expressions) |->
                 FilterExpressionToDict(t.and_group.expressions[i], ints, pres)]]
  ELSE IF "or_group" \in DOMAIN t
    THEN Key("or_group", pres) :>
           [expressions |->
              [i \in 1..Len(t.or_group.expressions) |->
                 FilterExpressionToDict(t.or_group.expressions[i], ints, pres)]]
  ELSE EmptyDict

OrderByToDict(o, ints, pres) ==
  IF "metric" \in DOMAIN o
  THEN ("metric" :>
          (Key("metric_name", pres) :> o.metric.metric_name))
       @@ ("desc" :> o.desc)
  ELSE ("dimension" :>
          ((Key("dimension_name", pres) :> o.dimension.dimension_name)
           @@ (Key("order_type", pres) :>
                 EnumValue(OrderType, o.dimension.order_type, ints))))
       @@ ("desc" :> o.desc)

\* A message of the admin and metadata services.
FlatToDict(obj, ints, pres) ==
  [k \in {Key(f, pres) : f \in DOMAIN obj} |->
     LET f == CHOOSE g \in DOMAIN obj : Key(g, pres) = k IN
       IF f = "enum_field" /\ ~ints THEN EnumName(obj[f]) ELSE obj[f]]

\* type(obj).to_dict / to_json of proto-plus, by the message's type.
MessageToDict(obj, use_integers_for_enums, preserving_proto_field_name) ==
  IF obj = EmptyMessage
       \/ DOMAIN obj \cap {"filter", "not_expression", "and_group",
                           "or_group"} # {}
  THEN FilterExpressionToDict(obj, use_integers_for_enums,
                              preserving_proto_field_name)
  ELSE IF "desc" \in DOMAIN obj
  THEN OrderByToDict(obj, use_integers_for_enums, preserving_proto_field_name)
  ELSE FlatToDict(obj, use_integers_for_enums, preserving_proto_field_name)

\* proto_to_dict: the fields under their declared names, enums by name.
proto_to_dict(obj) == MessageToDict(obj, FALSE, TRUE)

\* proto_to_json with preserving_proto_field_name dropped.
proto_to_json_camel(obj) == MessageToDict(obj, TRUE, FALSE)

\* proto_to_json: the fields under their declared names; the call does not
\* pass use_integers_for_enums, whose default in to_json is True.  The JSON
\* text is held as the JSON value it denotes.
proto_to_json(obj) == MessageToDict(obj, TRUE, TRUE)

Dimension(name) == [name |-> name]
Metric(name) == [name |-> name]

\* A request assembly that writes offset under the test of limit.
RunRealtimeReportRequestCoupled(a, rn) ==
  LET base ==
        [property |-> rn,
         dimensions |-> [i \in 1..Len(a.dimensions) |->
                            Dimension(a.dimensions[i])],
         metrics |-> [i \in 1..Len(a.metrics) |-> Metric(a.metrics[i])],
         return_property_quota |-> a.return_property_quota,
         dimension_filter |-> Unset,
         metric_filter |-> Unset,
         order_bys |-> <<>>,
         limit |-> 0,
         offset |-> 0]
      dimension_filters ==
        IF Truthy(a.dimension_filter)
        THEN FilterExpression(a.dimension_filter) ELSE {Unset}
      metric_filters ==
        IF Truthy(a.metric_filter)
        THEN FilterExpression(a.metric_filter) ELSE {Unset}
      order_bys ==
        IF Truthy(a.order_bys)
        THEN [i \in 1..Len(a.order_bys.list) |-> OrderBy(a.order_bys.list[i])]
        ELSE <<>>
      limit == IF Truthy(a.limit) THEN a.limit.int ELSE 0
      offset == IF Truthy(a.limit) /\ IsInt(a.offset) THEN a.offset.int ELSE 0
  IN {[base EXCEPT !.dimension_filter = df, !.metric_filter = mf,
                   !.order_bys = order_bys, !.limit = limit,
                   !.offset = offset] :
        df \in dimension_filters, mf \in metric_filters}

\* run_realtime_report, lines 134-159: the requests the assembly can build
\* for the resource name rn.
RunRealtimeReportRequest(a, rn) ==
  LET base ==
        [property |-> rn,
         dimensions |-> [i \in 1..Len(a.dimensions) |->
                            Dimension(a.dimensions[i])],
         metrics |-> [i \in 1..Len(a.metrics) |-> Metric(a.metrics[i])],
         return_property_quota |-> a.return_property_quota,
         dimension_filter |-> Unset,
         metric_filter |-> Unset,
         order_bys |-> <<>>,
         limit |-> 0,
         offset |-> 0]
      dimension_filters ==
        IF Truthy(a.dimension_filter)
        THEN FilterExpression(a.dimension_filter) ELSE {Unset}
      metric_filters ==
        IF Truthy(a.metric_filter)
        THEN FilterExpression(a.metric_filter) ELSE {Unset}
      order_bys ==
        IF Truthy(a.order_bys)
        THEN [i \in 1..Len(a.order_bys.list) |-> OrderBy(a.order_bys.list[i])]
        ELSE <<>>
      limit == IF Truthy(a.limit) THEN a.limit.int ELSE 0
      offset == IF Truthy(a.offset) THEN a.offset.int ELSE 0
  IN {[base EXCEPT !.dimension_filter = df, !.metric_filter = mf,
                   !.order_bys = order_bys, !.limit = limit,
                   !.offset = offset] :
        df \in dimension_filters, mf \in metric_filters}

\* A run_realtime_report that checks the order_bys fields before it
\* assembles the request.
run_realtime_report_checking(a, credentials_ok) ==
  /\ pc = "idle"
  /\ LET rn == construct_property_rn(a.property_id)
         named(m) == IF "metric" \in DOMAIN m THEN m.metric.metric_name
                     ELSE m.dimension.dimension_name
         among(m) == IF "metric" \in DOMAIN m THEN a.metrics ELSE a.dimensions
         unrequested ==
           /\ Truthy(a.order_bys)
           /\ \E i \in 1..Len(a.order_bys.list) :
                \A j \in 1..Len(among(a.order_bys.list[i])) :
                  among(a.order_bys.list[i])[j] # named(a.order_bys.list[i])
     IN IF rn.error # "none"
        THEN Raise("run_realtime_report", a, rn.error, <<>>)
        ELSE IF unrequested
        THEN Raise("run_realtime_report", a, "OrderByFieldNotRequested", <<>>)
        ELSE \E request \in RunRealtimeReportRequest(a, rn.value) :
               create_client("run_realtime_report", a, <<>>, "data",
                             credentials_ok, "run_realtime_report", request)

run_realtime_report(a, credentials_ok) ==
  /\ pc = "idle"
  /\ LET rn == construct_property_rn(a.property_id)
     IN IF rn.error # "none"
        THEN Raise("run_realtime_report", a, rn.error, <<>>)
        ELSE \E request \in RunRealtimeReportRequest(a, rn.value) :
               create_client("run_realtime_report", a, <<>>, "data",
                             credentials_ok, "run_realtime_report", request)

\* ---- the remote's answers ------------------------------------------------
Request == net[Len(net)].request
Method == net[Len(net)].method

RECURSIVE Served(_)
\* Number of items in a sequence of pages.
Served(ps) == IF ps = <<>> THEN 0 ELSE Len(Head(ps)) + Served(Tail(ps))

\* A comprehension that puts the items of a later page first.
ComprehendPrepending(list, page) ==
  [i \in 1..Len(page) |-> proto_to_dict(page[i])] \o list

\* The async comprehension: each item of the page is converted and
\* appended to the list built so far.
Comprehend(list, page) ==
  list \o [i \in 1..Len(page) |-> proto_to_dict(page[i])]

\* The pager yields the items of one more page; with a next page token it
\* fetches the following page, without one the comprehension ends and the
\* tool returns its list.
page_arrives(size, more) ==
  /\ pc = "awaiting"
  /\ tool \in ListingTools
  /\ more => Len(pages) + 1 < MaxPages
  /\ LET page == [i \in 1..size |-> Message(Served(pages) + i)]
         list == Comprehend(all_pages, page)
     IN /\ pages' = Append(pages, page)
        /\ all_pages' = list
        /\ IF more
           THEN /\ net' = Append(net,
                    RpcEvent(Method,
                             [Request EXCEPT !.page_token = Len(pages) + 1]))
                /\ UNCHANGED <<pc, outcome>>
           ELSE /\ pc' = "done"
                /\ outcome' = Returned(list)
                /\ UNCHANGED net
  /\ UNCHANGED <<tool, args, raised>>

\* get_property_details, lines 75-76.
get_property_returns(n) ==
  /\ pc = "awaiting"
  /\ tool = "get_property_details"
  /\ pc' = "done"
  /\ outcome' = Returned(proto_to_dict(Message(n)))
  /\ UNCHANGED <<tool, args, net, pages, all_pages, raised>>

DimensionMetadata(i, custom) ==
  [api_name |-> <<"dimension", i>>, custom_definition |-> custom]
MetricMetadata(i, custom) ==
  [api_name |-> <<"metric", i>>, enum_field |-> i % 2,
   custom_definition |-> custom]

\* A comprehension without its condition.
CustomDefinitionsUnfiltered(xs) ==
  [i \in 1..Len(xs) |-> proto_to_dict(xs[i])]

RECURSIVE CustomDefinitions(_)
\* [proto_to_dict(x) for x in xs if x.custom_definition]
CustomDefinitions(xs) ==
  IF xs = <<>> THEN <<>>
  ELSE IF Head(xs).custom_definition
       THEN <<proto_to_dict(Head(xs))>> \o CustomDefinitions(Tail(xs))
       ELSE CustomDefinitions(Tail(xs))

\* get_custom_dimensions_and_metrics, lines 335-348.
get_metadata_returns(dimension_flags, metric_flags) ==
  /\ pc = "awaiting"
  /\ tool = "get_custom_dimensions_and_metrics"
  /\ LET metadata ==
           [dimensions |-> [i \in 1..Len(dimension_flags) |->
                              DimensionMetadata(i, dimension_flags[i])],
            metrics |-> [i \in 1..Len(metric_flags) |->
                           MetricMetadata(i, metric_flags[i])]]
     IN /\ pages' = <<metadata>>
        /\ outcome' =
             Returned([custom_dimensions |->
                         CustomDefinitions(metadata.dimensions),
                       custom_metrics |->
                         CustomDefinitions(metadata.metrics)])
  /\ pc' = "done"
  /\ UNCHANGED <<tool, args, net, all_pages, raised>>

\* run_realtime_report, lines 161-162.
run_realtime_report_returns(n) ==
  /\ pc = "awaiting"
  /\ tool = "run_realtime_report"
  /\ pc' = "done"
  /\ outcome' = Returned(proto_to_dict(Message(n)))
  /\ UNCHANGED <<tool, args, net, pages, all_pages, raised>>

\* A handler that attaches the items fetched so far to the error.
PropagatePartial(e) ==
  /\ pc' = "failed"
  /\ outcome' = [status |-> "error", error |-> e, value |-> all_pages]
  /\ UNCHANGED <<net, all_pages>>

\* A handler that issues the failed call once more.
PropagateRetrying(e) ==
  IF Len(net) < MaxPages + 2
  THEN /\ pc' = "awaiting"
       /\ net' = Append(net, net[Len(net)])
       /\ UNCHANGED <<outcome, all_pages>>
  ELSE /\ pc' = "failed"
       /\ outcome' = Raised(e)
       /\ UNCHANGED <<net, all_pages>>

\* What the handler does with the error e of its awaited remote call:
\* nothing catches it, so it leaves the handler as it is.
Propagate(e) ==
  /\ pc' = "failed"
  /\ outcome' = Raised(e)
  /\ UNCHANGED <<net, all_pages>>

\* The awaited remote call (unary call or page fetch) raises e.
remote_fails(e) ==
  /\ pc = "awaiting"
  /\ raised' = e
  /\ Propagate(e)
  /\ UNCHANGED <<tool, args, pages>>

\* The host hands the outcome to the caller; the handler's frame is gone.
Deliver ==
  /\ pc \in {"done", "failed"}
  /\ pc' = "idle"
  /\ tool' = "none"
  /\ args' = None
  /\ net' = <<>>
  /\ pages' = <<>>
  /\ all_pages' = <<>>
  /\ outcome' = NoOutcome
  /\ raised' = "none"

\* ---- inputs -------------------------------------------------------------
SeqsUpTo(S, n) == UNION {[1..k -> S] : k \in 0..n}

PropertyValues ==
  {PyInt(n) : n \in -1..MaxIntArg}
    \cup {PyStr(s) : s \in SeqsUpTo(InputChars, MaxLen)}

\* A call that passes only the required arguments.
RequiredOnly(property_id) ==
  [property_id |-> property_id,
   dimensions |-> <<"eventName">>,
   metrics |-> <<"eventCount">>,
   dimension_filter |-> None,
   metric_filter |-> None,
   order_bys |-> None,
   limit |-> None,
   offset |-> None,
   return_property_quota |-> FALSE]

Responses ==
  \/ \E size \in 0..MaxPageSize, more \in BOOLEAN : page_arrives(size, more)
  \/ \E n \in 1..2 : get_property_returns(n)
  \/ \E d \in SeqsUpTo(BOOLEAN, MaxEntries), m \in SeqsUpTo(BOOLEAN, MaxEntries) :
       get_metadata_returns(d, m)
  \/ \E n \in 1..2 : run_realtime_report_returns(n)
  \/ \E e \in RemoteErrors : remote_fails(e)
  \/ Deliver

\* A tool is invoked only from the idle state; the test stands before the
\* choice of its arguments.
Next ==
  \/ \E ok \in BOOLEAN : get_account_summaries(ok)
  \/ pc = "idle" /\ \E p \in PropertyValues, ok \in BOOLEAN :
       list_google_ads_links(p, ok)
  \/ pc = "idle" /\ \E p \in PropertyValues, ok \in BOOLEAN :
       get_property_details(p, ok)
  \/ pc = "idle" /\ \E p \in PropertyValues, ok \in BOOLEAN :
       list_property_annotations(p, ok)
  \/ pc = "idle" /\ \E p \in PropertyValues, ok \in BOOLEAN :
       get_custom_dimensions_and_metrics(p, ok)
  \/ pc = "idle" /\ \E p \in PropertyValues, ok \in BOOLEAN :
       run_realtime_report(RequiredOnly(p), ok)
  \/ Responses

Spec == Init /\ [][Next]_vars

\* ---- run_realtime_report on its own -------------------------------------
ReportPropertyValues == {PyInt(1), PyStr(<<"x">>)}

OrderByDicts ==
  {[metric |-> [metric_name |-> "activeUsers"]],
   [metric |-> [metric_name |-> "eventCount"]],
   [dimension |-> [dimension_name |-> "eventName"]]}

OrderBysArgs == {None} \cup {PyList(s) : s \in SeqsUpTo(OrderByDicts, MaxOrderBys)}
LimitArgs == {None} \cup {PyInt(n) : n \in {-1, 0, 1, MaxLimit, MaxLimit + 1}}
OffsetArgs == {None} \cup {PyInt(n) : n \in 0..1}

\* Filter mappings with one discriminator key, nested to depth d; a filter
\* has at most MaxPopulated predicate sub-fields, a group at most
\* MaxOperands expressions.
FilterDicts ==
  {FilterDict(P) : P \in {Q \in SUBSET PredicateKeys : Cardinality(Q) <= MaxPopulated}}

RECURSIVE FilterMappings(_)
FilterMappings(d) ==
  LET below == IF d = 0 THEN {} ELSE FilterMappings(d - 1)
      lists == {ms \in SeqsUpTo(below, MaxOperands) : TRUE}
  IN {[filter |-> f] : f \in FilterDicts}
       \cup {[not_expression |-> m] : m \in below}
       \cup {[and_group |-> [expressions |-> ms]] : ms \in lists}
       \cup {[or_group |-> [expressions |-> ms]] : ms \in lists}

SimpleFilterArgs == {None, EmptyDict, [filter |-> FilterDict({"string_filter"})]}
FilterArgs == {None, EmptyDict} \cup FilterMappings(MaxDepth)

\* Calls that vary the dimensions, the ordering and the paging arguments.
ReportCalls ==
  [property_id : ReportPropertyValues,
   dimensions : {<<>>, <<"eventName">>},
   metrics : {<<"eventCount">>},
   dimension_filter : SimpleFilterArgs,
   metric_filter : SimpleFilterArgs,
   order_bys : OrderBysArgs,
   limit : LimitArgs,
   offset : OffsetArgs,
   return_property_quota : BOOLEAN]

\* Calls that vary the two filters.
FilterCalls ==
  {[RequiredOnly(p) EXCEPT !.dimension_filter = df, !.metric_filter = mf] :
     p \in ReportPropertyValues, df \in FilterArgs, mf \in FilterArgs}

ReportResponses ==
  \/ \E n \in 1..2 : run_realtime_report_returns(n)
  \/ \E e \in RemoteErrors : remote_fails(e)
  \/ Deliver

NextReport ==
  \/ pc = "idle" /\ \E a \in ReportCalls, ok \in BOOLEAN :
       run_realtime_report(a, ok)
  \/ ReportResponses

SpecReport == Init /\ [][NextReport]_vars

NextFilter ==
  \/ pc = "idle" /\ \E a \in FilterCalls, ok \in BOOLEAN :
       run_realtime_report(a, ok)
  \/ ReportResponses

SpecFilter == Init /\ [][NextFilter]_vars

\* ---- filter expressions and their serialisations ------------------------
\* The one message a constructor builds from keyword arguments that
\* populate at most one member of each oneof.
Only(S) == CHOOSE x \in S : TRUE

\* Filters on one field, one or more for each of the five predicate kinds.
LeafFilters ==
  {[field_name |-> "eventName",
    string_filter |-> [match_type |-> PyInt(2), value |-> "add"]],
   [field_name |-> "eventName",
    in_list_filter |->
      [case_sensitive |-> TRUE,
       values |-> <<"first_visit", "purchase", "add_to_cart">>]],
   [field_name |-> "eventCount",
    numeric_filter |->
      [operation |-> PyInt(4), value |-> [int64_value |-> PyInt(10)]]],
   [field_name |-> "eventCount",
    numeric_filter |->
      [operation |-> PyInt(2), value |-> [int64_value |-> PyInt(0 - 1)]]],
   [field_name |-> "purchaseRevenue",
    between_filter |->
      [from_value |-> [double_value |-> [float |-> 10]],
       to_value |-> [double_value |-> [float |-> 25]]]],
   [field_name |-> "source", empty_filter |-> EmptyDict]}

RECURSIVE Trees(_)

\* The valid FilterExpression messages of depth at most d: a comparison, a
\* negation, or a conjunction or disjunction of 1..MaxOperands operands.
Trees(d) ==
  IF d = 0 THEN {[filter |-> Only(Filter(f))] : f \in LeafFilters}
  ELSE LET sub == Trees(d - 1)
           operands == SeqsUpTo(sub, MaxOperands) \ {<<>>}
       IN sub
          \cup {[not_expression |-> t] : t \in sub}
          \cup {[and_group |-> [expressions |-> ts]] : ts \in operands}
          \cup {[or_group |-> [expressions |-> ts]] : ts \in operands}

\* A FilterExpression message is built, as the hint functions build theirs.
build_filter_expression(t) ==
  /\ pc = "idle"
  /\ pc' = "message"
  /\ tool' = "FilterExpression"
  /\ args' = t
  /\ UNCHANGED <<net, pages, all_pages, outcome, raised>>

call_proto_to_dict ==
  /\ pc = "message"
  /\ pc' = "serialised"
  /\ tool' = "proto_to_dict"
  /\ outcome' = Returned(proto_to_dict(args))
  /\ UNCHANGED <<args, net, pages, all_pages, raised>>

call_proto_to_json ==
  /\ pc = "message"
  /\ pc' = "serialised"
  /\ tool' = "proto_to_json"
  /\ outcome' = Returned(proto_to_json(args))
  /\ UNCHANGED <<args, net, pages, all_pages, raised>>

\* The serialised form comes back as a filter argument and
\* run_realtime_report hands it to the FilterExpression constructor.
parse_filter_expression ==
  /\ pc = "serialised"
  /\ LET built == FilterExpression(outcome.value) IN
       IF built = {}
       THEN /\ pc' = "failed"
            /\ raised' = "ValueError"
            /\ UNCHANGED pages
       ELSE /\ pc' = "done"
            /\ \E m \in built : pages' = <<m>>
            /\ UNCHANGED raised
  /\ UNCHANGED <<tool, args, net, all_pages, outcome>>

\* ---- the hint tools -----------------------------------------------------
event_count_gt_10_filter ==
  Only(FilterExpression(
    [filter |->
       [field_name |-> "eventCount",
        numeric_filter |->
          [operation |-> PyInt(4),
           value |-> [int64_value |-> PyInt(10)]]]]))

revenue_between_filter ==
  Only(FilterExpression(
    [filter |->
       [field_name |-> "purchaseRevenue",
        between_filter |->
          [from_value |-> [double_value |-> [float |-> 10]],
           to_value |-> [double_value |-> [float |-> 25]]]]]))

begins_with ==
  Only(FilterExpression(
    [filter |->
       [field_name |-> "eventName",
        string_filter |-> [match_type |-> PyInt(2), value |-> "add"]]]))

source_medium_filter ==
  Only(FilterExpression(
    [filter |->
       [field_name |-> "sourceMedium",
        string_filter |->
          [match_type |-> PyInt(1), value |-> "google / cpc"]]]))

event_list_filter ==
  Only(FilterExpression(
    [filter |->
       [field_name |-> "eventName",
        in_list_filter |->
          [case_sensitive |-> TRUE,
           values |-> <<"first_visit", "purchase", "add_to_cart">>]]]))

\* The five examples of a filter hint: simple, NOT, empty value, AND, OR.
FilterExamples(simple, empty_field, left, right) ==
  <<simple,
    [not_expression |-> simple],
    Only(FilterExpression(
      [filter |-> [field_name |-> empty_field, empty_filter |-> EmptyDict]])),
    [and_group |-> [expressions |-> <<left, right>>]],
    [or_group |-> [expressions |-> <<left, right>>]]>>

dimension_alphanumeric_ascending ==
  OrderBy([dimension |->
             [dimension_name |-> "eventName", order_type |-> PyInt(1)],
           desc |-> FALSE])
dimension_alphanumeric_no_case_descending ==
  OrderBy([dimension |->
             [dimension_name |-> "campaignName", order_type |-> PyInt(2)],
           desc |-> TRUE])
dimension_numeric_ascending ==
  OrderBy([dimension |->
             [dimension_name |-> "audienceId", order_type |-> PyInt(3)],
           desc |-> FALSE])
metric_ascending ==
  OrderBy([metric |-> [metric_name |-> "eventCount"], desc |-> FALSE])
metric_descending ==
  OrderBy([metric |-> [metric_name |-> "eventValue"], desc |-> TRUE])

OrderByExamples ==
  <<dimension_alphanumeric_ascending,
    dimension_alphanumeric_no_case_descending,
    dimension_numeric_ascending,
    metric_descending,
    metric_ascending,
    dimension_alphanumeric_ascending,
    metric_descending,
    dimension_alphanumeric_ascending,
    dimension_numeric_ascending,
    metric_descending>>

HintTools ==
  {"get_metric_filter_hints", "get_dimension_filter_hints",
   "get_order_bys_hints"}

\* A hint tool returns its text: the interpolated examples, each the
\* proto_to_json of its message, in the order of the text.
Hints(t, examples) ==
  /\ pc = "idle"
  /\ pc' = "done"
  /\ tool' = t
  /\ outcome' = Returned([i \in 1..Len(examples) |-> proto_to_json(examples[i])])
  /\ UNCHANGED <<args, net, pages, all_pages, raised>>

get_metric_filter_hints ==
  Hints("get_metric_filter_hints",
        FilterExamples(event_count_gt_10_filter, "purchaseRevenue",
                       event_count_gt_10_filter, revenue_between_filter))

get_dimension_filter_hints ==
  Hints("get_dimension_filter_hints",
        FilterExamples(begins_with, "source",
                       source_medium_filter, event_list_filter))

get_order_bys_hints == Hints("get_order_bys_hints", OrderByExamples)

NextSerial ==
  \/ pc = "idle" /\ \E t \in Trees(MaxDepth) : build_filter_expression(t)
  \/ call_proto_to_dict
  \/ call_proto_to_json
  \/ parse_filter_expression
  \/ get_metric_filter_hints
  \/ get_dimension_filter_hints
  \/ get_order_bys_hints
  \/ Deliver

SpecSerial == Init /\ [][NextSerial]_vars

\* ---- concurrent invocations ---------------------------------------------
\* The host runs every invocation as a coroutine of its own on one event
\* loop; the coroutines interleave at their awaits.  Here each variable
\* holds one value per invocation: the locals of that coroutine's frame.
Invocations == 1..MaxInvocations

InitConcurrent ==
  /\ pc = [i \in Invocations |-> "idle"]
  /\ tool = [i \in Invocations |-> "none"]
  /\ args = [i \in Invocations |-> None]
  /\ net = [i \in Invocations |-> <<>>]
  /\ pages = [i \in Invocations |-> <<>>]
  /\ all_pages = [i \in Invocations |-> <<>>]
  /\ outcome = [i \in Invocations |-> NoOutcome]
  /\ raised = [i \in Invocations |-> "none"]

\* Every invocation appends to the list of invocation 1.
FrameShared(i) == 1

\* The frame that holds the all_pages local of invocation i: its own.
Frame(i) == i

\* Invocation i raises e after the network events n.
RaiseIn(i, t, a, e, n) ==
  /\ pc' = [pc EXCEPT ![i] = "failed"]
  /\ tool' = [tool EXCEPT ![i] = t]
  /\ args' = [args EXCEPT ![i] = a]
  /\ net' = [net EXCEPT ![i] = n]
  /\ outcome' = [outcome EXCEPT ![i] = Raised(e)]
  /\ UNCHANGED <<pages, all_pages, raised>>

\* Invocation i creates its client from fresh credentials and suspends on
\* its first remote call, or fails when google.auth.default raises.
CreateClientIn(i, t, a, credentials_ok, method, request) ==
  IF credentials_ok
  THEN /\ pc' = [pc EXCEPT ![i] = "awaiting"]
       /\ tool' = [tool EXCEPT ![i] = t]
       /\ args' = [args EXCEPT ![i] = a]
       /\ net' = [net EXCEPT ![i] =
                    <<CredentialsEvent("admin"), RpcEvent(method, request)>>]
       /\ UNCHANGED <<pages, all_pages, outcome, raised>>
  ELSE RaiseIn(i, t, a, "DefaultCredentialsError",
               <<CredentialsEvent("admin")>>)

get_account_summaries_in(i, credentials_ok) ==
  /\ pc[i] = "idle"
  /\ CreateClientIn(i, "get_account_summaries", None, credentials_ok,
                    "list_account_summaries", [page_token |-> 0])

list_google_ads_links_in(i, property_id, credentials_ok) ==
  /\ pc[i] = "idle"
  /\ LET a == [property_id |-> property_id]
         rn == construct_property_rn(property_id)
     IN IF rn.error # "none"
        THEN RaiseIn(i, "list_google_ads_links", a, rn.error, <<>>)
        ELSE CreateClientIn(i, "list_google_ads_links", a, credentials_ok,
                            "list_google_ads_links",
                            [parent |-> rn.value, page_token |-> 0])

\* The pager of invocation i yields one more page.
page_arrives_in(i, size, more) ==
  /\ pc[i] = "awaiting"
  /\ more => Len(pages[i]) + 1 < MaxFetches
  /\ LET page == [k \in 1..size |-> Message(Served(pages[i]) + k)]
         list == Comprehend(all_pages[Frame(i)], page)
         last == net[i][Len(net[i])]
     IN /\ pages' = [pages EXCEPT ![i] = Append(pages[i], page)]
        /\ all_pages' = [all_pages EXCEPT ![Frame(i)] = list]
        /\ IF more
           THEN /\ net' = [net EXCEPT ![i] =
                    Append(net[i],
                           RpcEvent(last.method,
                                    [last.request EXCEPT
                                       !.page_token = Len(pages[i]) + 1]))]
                /\ UNCHANGED <<pc, outcome>>
           ELSE /\ pc' = [pc EXCEPT ![i] = "done"]
                /\ outcome' = [outcome EXCEPT ![i] = Returned(list)]
                /\ UNCHANGED net
  /\ UNCHANGED <<tool, args, raised>>

\* The remote call awaited by invocation i raises e.
remote_fails_in(i, e) ==
  /\ pc[i] = "awaiting"
  /\ raised' = [raised EXCEPT ![i] = e]
  /\ pc' = [pc EXCEPT ![i] = "failed"]
  /\ outcome' = [outcome EXCEPT ![i] = Raised(e)]
  /\ UNCHANGED <<tool, args, net, pages, all_pages>>

ConcurrentPropertyValues == {PyInt(1), PyStr(<<"x">>)}

NextConcurrent ==
  \/ \E i \in Invocations, ok \in BOOLEAN : get_account_summaries_in(i, ok)
  \/ \E i \in Invocations, p \in ConcurrentPropertyValues, ok \in BOOLEAN :
       list_google_ads_links_in(i, p, ok)
  \/ \E i \in Invocations, size \in {0, 1}, more \in BOOLEAN :
       page_arrives_in(i, size, more)
  \/ \E i \in Invocations : remote_fails_in(i, "UNAVAILABLE")

SpecConcurrent == InitConcurrent /\ [][NextConcurrent]_vars

\* ---- properties ---------------------------------------------------------
\* The rpc events of a sequence of network events.
RpcEvents(n) == SelectSeq(n, LAMBDA e : e.kind = "rpc")

\* The property / parent / name field of a request.
ResourceName(e) ==
  CASE e.method = "get_property" -> e.request.name
    [] e.method = "get_metadata" -> e.request.name
    [] e.method = "run_realtime_report" -> e.request.property
    [] OTHER -> e.request.parent

Invoked == pc # "idle"
\* google.auth.default did not fail in this invocation.
CredentialsResolved == outcome.error # "DefaultCredentialsError"
HasPropertyId == Invoked /\ tool \in PropertyTools

\* A valid identifier: a positive integer, a numeric string, or the string
\* properties/<digits>, blanks around a string being ignored.
ValidPropertyId(p) ==
  \/ IsInt(p) /\ p.int > 0
  \/ IsStr(p) /\ LET t == Strip(p.str) IN
       \/ IsDigit(t)
       \/ StartsWithProperties(t) /\ IsDigit(Tail(t))

NumericValue(p) ==
  IF IsInt(p) THEN p.int
  ELSE LET t == Strip(p.str) IN
         IF IsDigit(t) THEN ParseInt(t) ELSE ParseInt(Tail(t))

\* C1: a valid identifier is normalised to properties/<digits> with the
\* digits of its numeric value, and that name is what every request of the
\* invocation carries; every other string is rejected with the
\* invalid-property-id error and nothing is returned or sent.
C1_Normalisation ==
  HasPropertyId =>
    LET p == args.property_id
        rn == construct_property_rn(p)
    IN /\ ValidPropertyId(p) =>
            /\ rn.error = "none"
            /\ rn.value = <<"properties/">> \o FormatNat(NumericValue(p))
            /\ \A i \in 1..Len(net) :
                 net[i].kind = "rpc" /\ net[i].method # "get_metadata"
                   => ResourceName(net[i]) = rn.value
       /\ IsStr(p) /\ ~ValidPropertyId(p) =>
            /\ pc = "failed"
            /\ outcome.value = <<>>
            /\ RpcEvents(net) = <<>>
            /\ outcome.error \in {"InvalidPropertyId", "DefaultCredentialsError"}
            /\ outcome.error = "DefaultCredentialsError" => net # <<>>

\* properties/<digits>, followed by suffix.
IsWireName(s, suffix) ==
  /\ Len(s) >= 2 + Len(suffix)
  /\ Head(s) = "properties/"
  /\ SubSeq(s, Len(s) - Len(suffix) + 1, Len(s)) = suffix
  /\ IsDigit(SubSeq(s, 2, Len(s) - Len(suffix)))

\* C2: every request that reaches a remote client names its property as
\* properties/ followed by one or more decimal digits and nothing else
\* (then /metadata for the metadata call).
C2_WireFormat ==
  HasPropertyId =>
    \A i \in 1..Len(net) :
      net[i].kind = "rpc" =>
        IsWireName(ResourceName(net[i]),
                   IF net[i].method = "get_metadata"
                   THEN <<"/metadata">> ELSE <<>>)

\* C3: an invocation whose property_id is invalid fails before any network
\* round trip (credential resolution or remote call) of it has started;
\* stated for the invocations whose credentials, if asked for, resolve.
C3_ValidationFirst ==
  (/\ HasPropertyId
   /\ CredentialsResolved
   /\ construct_property_rn(args.property_id).error # "none")
  => (/\ net = <<>>
      /\ pc = "failed"
      /\ outcome.error = "InvalidPropertyId")

RECURSIVE Flatten(_)
\* The items of a sequence of pages, page after page.
Flatten(ps) == IF ps = <<>> THEN <<>> ELSE Head(ps) \o Flatten(Tail(ps))

Converted(ms) == [i \in 1..Len(ms) |-> proto_to_dict(ms[i])]

\* C4: a listing tool returns one list with the converted items of page 1
\* in order, then of page 2, and so on: as many items as the pages hold,
\* none dropped, duplicated or reordered.
C4_Flattening ==
  tool \in ListingTools /\ pc = "done" =>
    /\ outcome.status = "ok"
    /\ Len(outcome.value) = Served(pages)
    /\ outcome.value = Converted(Flatten(pages))
    /\ \A i \in 1..Len(outcome.value) : outcome.value[i].name = i

C4_Witness ==
  /\ tool = "get_account_summaries"
  /\ pc = "done"
  /\ Len(pages) = 3
  /\ Len(pages[1]) = 2 /\ Len(pages[2]) = 0 /\ Len(pages[3]) = 3
  /\ Len(outcome.value) = 5

\* C5: when the fetch of any page fails the invocation fails with that
\* failure and hands over no item of the pages fetched before; a listing
\* hands over the complete list or an error, never a prefix.
C5_AllOrNothing ==
  tool \in ListingTools =>
    /\ raised # "none" =>
         /\ pc = "failed"
         /\ outcome.status = "error"
         /\ outcome.error = raised
         /\ outcome.value = <<>>
    /\ outcome.status = "ok" =>
         /\ pc = "done"
         /\ raised = "none"
         /\ outcome.value = Converted(Flatten(pages))

C5_Witness ==
  /\ tool = "list_google_ads_links"
  /\ pc = "failed"
  /\ raised = "UNAVAILABLE"
  /\ Len(pages) = 2
  /\ all_pages # <<>>
  /\ outcome.value = <<>>

\* C6: each remote call is attempted at most once, and after a failed call
\* the invocation issues no further call and ends with that very failure.
C6_NoRetries ==
  Invoked =>
    LET rpcs == RpcEvents(net) IN
      /\ \A i, j \in 1..Len(rpcs) : i # j => rpcs[i] # rpcs[j]
      /\ raised # "none" =>
           /\ pc = "failed"
           /\ outcome = Raised(raised)
           /\ Len(rpcs) = Len(pages) + 1

C6_Witness ==
  /\ pc = "failed"
  /\ raised = "PERMISSION_DENIED"
  /\ Len(RpcEvents(net)) = 2
  /\ tool = "list_property_annotations"

\* ---- properties of run_realtime_report ----------------------------------
\* run_realtime_report was called with a property id that normalises, in
\* an environment whose credentials resolve.
ReportInvoked ==
  /\ Invoked
  /\ tool = "run_realtime_report"
  /\ CredentialsResolved
  /\ construct_property_rn(args.property_id).error = "none"

\* C7: a provided limit that is not a positive integer <= 250,000 makes
\* run_realtime_report fail with InvalidLimit before any request is sent.
C7_LimitValidated ==
  (/\ ReportInvoked
   /\ IsInt(args.limit)
   /\ ~(args.limit.int >= 1 /\ args.limit.int <= MaxLimit))
  => (/\ pc = "failed"
      /\ outcome.error = "InvalidLimit"
      /\ RpcEvents(net) = <<>>)

\* An order_bys entry names a dimension or a metric the call did not request.
Requested(m) ==
  IF "metric" \in DOMAIN m
  THEN \E i \in 1..Len(args.metrics) : args.metrics[i] = m.metric.metric_name
  ELSE \E i \in 1..Len(args.dimensions) :
         args.dimensions[i] = m.dimension.dimension_name

OrdersByUnrequested ==
  /\ ReportInvoked
  /\ "list" \in DOMAIN args.order_bys
  /\ \E i \in 1..Len(args.order_bys.list) : ~Requested(args.order_bys.list[i])

RECURSIVE HasEmptyGroup(_), HasAmbiguousPredicate(_)
\* The mapping holds, at some depth, a group with zero expressions.
HasEmptyGroup(m) ==
  IF "filter" \in DOMAIN m THEN FALSE
  ELSE IF "not_expression" \in DOMAIN m THEN HasEmptyGroup(m.not_expression)
  ELSE LET es == IF "and_group" \in DOMAIN m
                 THEN m.and_group.expressions ELSE m.or_group.expressions
       IN es = <<>> \/ \E i \in 1..Len(es) : HasEmptyGroup(es[i])

\* The mapping holds, at some depth, a filter with two populated predicates.
HasAmbiguousPredicate(m) ==
  IF "filter" \in DOMAIN m
  THEN Cardinality(DOMAIN m.filter \ {"field_name"}) >= 2
  ELSE IF "not_expression" \in DOMAIN m
  THEN HasAmbiguousPredicate(m.not_expression)
  ELSE LET es == IF "and_group" \in DOMAIN m
                 THEN m.and_group.expressions ELSE m.or_group.expressions
       IN \E i \in 1..Len(es) : HasAmbiguousPredicate(es[i])

\* C9: a dimension_filter or metric_filter with an empty and_group or
\* or_group at any depth makes run_realtime_report fail with EmptyGroup
\* before the filter is put into a request and before any remote call.
C9_EmptyGroupRejected ==
  (/\ ReportInvoked
   /\ \/ Truthy(args.dimension_filter) /\ HasEmptyGroup(args.dimension_filter)
      \/ Truthy(args.metric_filter) /\ HasEmptyGroup(args.metric_filter))
  => (/\ pc = "failed"
      /\ outcome.error = "EmptyGroup"
      /\ RpcEvents(net) = <<>>)

\* C10: a filter mapping with two populated predicate sub-fields makes
\* run_realtime_report fail with AmbiguousPredicate; it never becomes an
\* outbound filter in which one of the two has won.
C10_AmbiguousRejected ==
  (/\ ReportInvoked
   /\ \/ Truthy(args.dimension_filter)
           /\ HasAmbiguousPredicate(args.dimension_filter)
      \/ Truthy(args.metric_filter)
           /\ HasAmbiguousPredicate(args.metric_filter))
  => (/\ pc = "failed"
      /\ outcome.error = "AmbiguousPredicate"
      /\ RpcEvents(net) = <<>>)

\* ---- properties of the serialisers --------------------------------------
Serialisers == {"proto_to_dict", "proto_to_json"}

RECURSIVE EnumSlots(_)

\* The values of the enum-valued keys of the JSON object j, at any depth.
EnumSlots(j) ==
  LET keys == DOMAIN j IN
    {j[k] : k \in keys \cap {"match_type", "operation", "order_type"}}
    \cup UNION {EnumSlots(j[k]) :
                  k \in keys \cap {"filter", "not_expression", "string_filter",
                                   "numeric_filter", "dimension"}}
    \cup UNION {UNION {EnumSlots(j[k].expressions[i]) :
                         i \in 1..Len(j[k].expressions)} :
                  k \in keys \cap {"and_group", "or_group"}}

\* C12: in the examples returned by get_dimension_filter_hints,
\* get_metric_filter_hints and get_order_bys_hints every enum-valued field
\* (match_type, operation, order_type) is written as its symbolic name,
\* never as a raw integer.
C12_EnumsByName ==
  (tool \in HintTools /\ pc = "done")
  => (\A i \in 1..Len(outcome.value) :
        \A v \in EnumSlots(outcome.value[i]) : IsStr(v))

\* ---- properties of concurrent invocations -------------------------------
\* The network events of a listing invocation run alone: its credentials,
\* then one fetch per page token 0, 1, ... up to the number of calls made.
SoloNet(first, calls) ==
  <<CredentialsEvent("admin")>>
  \o [k \in 1..calls |->
        RpcEvent(first.method, [first.request EXCEPT !.page_token = k - 1])]

\* The first request a listing tool sends for its arguments.
FirstCall(t, a) ==
  IF t = "get_account_summaries"
  THEN RpcEvent("list_account_summaries", [page_token |-> 0])
  ELSE RpcEvent("list_google_ads_links",
                [parent |-> construct_property_rn(a.property_id).value,
                 page_token |-> 0])

\* C13: however the invocations interleave, each one creates its own
\* credentials and client, sends the requests and ends with the result it
\* produces when run alone against the pages and failures it was served;
\* nothing of another invocation shows in them.
C13_Isolation ==
  \A i \in Invocations :
    /\ pc[i] = "idle" =>
         /\ net[i] = <<>> /\ pages[i] = <<>> /\ all_pages[i] = <<>>
         /\ outcome[i] = NoOutcome
    /\ pc[i] = "awaiting" =>
         /\ net[i] = SoloNet(FirstCall(tool[i], args[i]), Len(pages[i]) + 1)
         /\ all_pages[i] = Converted(Flatten(pages[i]))
         /\ outcome[i] = NoOutcome
    /\ pc[i] = "done" =>
         /\ net[i] = SoloNet(FirstCall(tool[i], args[i]), Len(pages[i]))
         /\ outcome[i] = Returned(Converted(Flatten(pages[i])))
    /\ (pc[i] = "failed" /\ raised[i] # "none") =>
         /\ net[i] = SoloNet(FirstCall(tool[i], args[i]), Len(pages[i]) + 1)
         /\ outcome[i] = Raised(raised[i])
    /\ (pc[i] = "failed" /\ raised[i] = "none") =>
         /\ pages[i] = <<>> /\ all_pages[i] = <<>>
         /\ RpcEvents(net[i]) = <<>>

\* Two invocations of different tools, both past their first page and each
\* served pages of its own, one finished and one still suspended.
C13_Witness ==
  /\ pc[1] = "done" /\ pc[2] = "awaiting"
  /\ tool[1] = "list_google_ads_links" /\ tool[2] = "get_account_summaries"
  /\ Len(pages[1]) = 2 /\ Served(pages[1]) = 2
  /\ Len(pages[2]) = 1 /\ Served(pages[2]) = 1
  /\ outcome[1] = Returned(Converted(Flatten(pages[1])))

\* ---- the optional arguments of run_realtime_report -----------------------
\* The argument is omitted or falsy: None, 0, {} or [].
Falsy(v) == v \in {None, PyInt(0), EmptyDict, PyList(<<>>)}

\* The request of the invocation: the one of its remote call.
SentRequest == RpcEvents(net)[1].request

\* The invocation's call with one optional argument omitted.
Omitting(f) == [args EXCEPT ![f] = None]

\* The request field of an optional argument that was not written.
Default(f) ==
  CASE f \in {"dimension_filter", "metric_filter"} -> Unset
    [] f = "order_bys" -> <<>>
    [] OTHER -> 0

OptionalArguments ==
  {"dimension_filter", "metric_filter", "order_bys", "limit", "offset"}

Custom(xs) == SelectSeq(xs, LAMBDA x : x.custom_definition)

\* The entries of a returned list are of one kind, flagged, and in
\* strictly increasing position of the response.
OfKind(list, kind) ==
  /\ \A i \in 1..Len(list) :
       list[i].api_name[1] = kind /\ list[i].custom_definition
  /\ \A i, j \in 1..Len(list) :
       i < j => list[i].api_name[2] < list[j].api_name[2]

\* C15: get_custom_dimensions_and_metrics returns a mapping with exactly
\* the keys custom_dimensions and custom_metrics; each list holds exactly
\* the flagged dimensions (metrics) of the response, in the response's
\* order, each converted once, and no entry of the other kind.
C15_CustomSelection ==
  (tool = "get_custom_dimensions_and_metrics" /\ pc = "done") =>
    LET metadata == pages[1]
        result == outcome.value
    IN /\ outcome.status = "ok"
       /\ DOMAIN result = {"custom_dimensions", "custom_metrics"}
       /\ result.custom_dimensions = Converted(Custom(metadata.dimensions))
       /\ result.custom_metrics = Converted(Custom(metadata.metrics))
       /\ OfKind(result.custom_dimensions, "dimension")
       /\ OfKind(result.custom_metrics, "metric")
       /\ Len(result.custom_dimensions) =
            Cardinality({i \in 1..Len(metadata.dimensions) :
                           metadata.dimensions[i].custom_definition})
       /\ Len(result.custom_metrics) =
            Cardinality({i \in 1..Len(metadata.metrics) :
                           metadata.metrics[i].custom_definition})

\* Two custom dimensions after each other, and a standard metric before a
\* custom one: one entry is left out, three are kept.
C15_Witness ==
  /\ tool = "get_custom_dimensions_and_metrics"
  /\ pc = "done"
  /\ Len(pages[1].dimensions) = 2 /\ Len(pages[1].metrics) = 2
  /\ Len(outcome.value.custom_dimensions) = 2
  /\ Len(outcome.value.custom_metrics) = 1
  /\ ~pages[1].metrics[1].custom_definition
  /\ outcome.value.custom_metrics[1].api_name = <<"metric", 2>>

====
